---- MODULE Spec2Model ----
(***************************************************************************)
(* Context-editing decision policy of the Acontext integration            *)
(* (src/app/protected/layout.tsx, determineEditStrategies) and the state  *)
(* a caller holds around one decision call.                                *)
(*                                                                         *)
(* Optional JavaScript values are modelled as sequences of length 0 or 1:  *)
(* <<>> is undefined/null, <<v>> is the value v.                           *)
(***************************************************************************)
EXTENDS Integers, Sequences, FiniteSets, TLC

VARIABLES
    tokenCounts,  \* the caller's TokenCounts object, or null
    messages,     \* the caller's message array
    config,       \* the caller's config object, or undefined
    strategies,   \* the array returned by the last call of determineEditStrategies
    pc,           \* "ready": inputs prepared, "returned": the call has returned
    callLog,      \* the calls made so far: arguments and returned array
    acontext,     \* TRUE when getAcontextClient() returns a client
    stored,       \* the messages persisted in the context service's session
    chatSession,  \* the ChatSession object handed to getOrCreateAcontextSession
    dbRow,        \* acontext_session_id of that session's chat_sessions row
    trace,        \* the invocations of the service helpers, each with the calls it issued
    userAcontextSpaces, \* space_id of each user_acontext_spaces row of the user
    spacesCreated,      \* number of Spaces the context service has created for the user
    spacePc,            \* where each call of getOrCreateUserSpaceId stands
    spaceId,            \* each call's local spaceId (0 before the Space is created)
    spaceReturns,       \* the values the calls of getOrCreateUserSpaceId returned, in order
    disk,               \* the Disk: its directory tree and how it names directories
    failing,            \* the paths whose listing is rejected
    diskPc,             \* where listAcontextArtifacts stands
    diskPending,        \* the paths still to be listed, next first
    allArtifacts,       \* the array shared by the calls of listArtifactsRecursive
    listedPaths,        \* the path of every disks.artifacts.list call, in order
    diskResult,         \* what listAcontextArtifacts returned
    thrown,             \* the value handed to formatErrorResponse as its error argument
    includeDetails,     \* its includeDetails argument
    errorPc,            \* "ready", "returned" or "threw"
    response,           \* the ChatError formatErrorResponse returned
    maskInput,          \* the string handed to maskSensitiveInfo
    maskPc,             \* "ready" or "returned"
    maskOutput          \* the string maskSensitiveInfo returned

decideVars == <<tokenCounts, messages, config, strategies, pc, callLog>>
serviceVars == <<acontext, stored, chatSession, dbRow, trace>>

spaceVars == <<userAcontextSpaces, spacesCreated, spacePc, spaceId, spaceReturns>>
diskVars == <<disk, failing, diskPc, diskPending, allArtifacts, listedPaths, diskResult>>
errorVars == <<thrown, includeDetails, errorPc, response>>
maskVars == <<maskInput, maskPc, maskOutput>>
helperVars == <<spaceVars, diskVars, errorVars, maskVars>>

vars == <<decideVars, serviceVars, helperVars>>

----------------------------------------------------------------------------
(* Bounds of the model *)

MaxMsgs == 2       \* longest free-form message array
MaxRound == 11     \* most tool calls requested in one agent round
MaxCalls == 3      \* most calls of determineEditStrategies in one behaviour of SpecRepeat
MaxSpaceCalls == 3  \* calls of getOrCreateUserSpaceId made for the user
MaxPermuted == 4   \* longest message array checked under every permutation

----------------------------------------------------------------------------
(* Values *)

Undefined == <<>>
Null == <<>>
Some(v) == <<v>>

\* TokenCounts { total_tokens: number }
TokenCounts(n) == Some([total_tokens |-> n])

\* msg.toolCalls is `unknown`: absent, one non-array object, or an array
NoToolCalls == [kind |-> "undefined", items |-> <<>>]
SingleCall == [kind |-> "object", items |-> <<>>]
Array(n) == [kind |-> "array", items |-> [i \in 1..n |-> i]]

Message(r, tc) == [role |-> r, toolCalls |-> tc]

\* The three variants of EditStrategy
TokenLimit(n) == [type |-> "token_limit", params |-> [limit_tokens |-> n]]

RemoveToolResult(n, p) ==
    [type |-> "remove_tool_result",
     params |-> [keep_recent_n_tool_results |-> n, tool_result_placeholder |-> p]]

RemoveToolCallParams(n) ==
    [type |-> "remove_tool_call_params", params |-> [keep_recent_n_tool_calls |-> n]]

Config(a, b, c, d) ==
    Some([tokenLimitThreshold |-> a, tokenLimitTarget |-> b,
          toolResultThreshold |-> c, toolCallThreshold |-> d])

----------------------------------------------------------------------------
(* determineEditStrategies *)

DefaultTokenLimitThreshold == 80000
DefaultTokenLimitTarget == 70000
DefaultToolResultThreshold == 5
DefaultToolCallThreshold == 10

\* toolCallThreshold read from config?.toolResultThreshold (a copied line)
OptField_CopiedLine(cfg, f) ==
    IF cfg = Undefined THEN Undefined
    ELSE cfg[1][IF f = "toolCallThreshold" THEN "toolResultThreshold" ELSE f]

\* config?.field : undefined when config itself is undefined
OptField(cfg, f) == IF cfg = Undefined THEN Undefined ELSE cfg[1][f]

\* a || b on an optional number: also replaces a supplied 0
Coalesce_FalsyOr(v, d) == IF v = Undefined \/ v = Some(0) THEN d ELSE v[1]

\* a ?? b : b only when a is null or undefined
Coalesce(v, d) == IF v = Undefined THEN d ELSE v[1]

\* !tokenCounts alone
NoSignal_NullOnly(tc) == tc = Null

\* !tokenCounts || tokenCounts.total_tokens === 0
NoSignal(tc) == tc = Null \/ tc[1].total_tokens = 0

\* if (msg.toolCalls): every object and every array, the empty one too, is truthy
Truthy(toolCalls) == toolCalls.kind # "undefined"

\* Array.isArray(msg.toolCalls) ? msg.toolCalls : [msg.toolCalls]
AsArray(toolCalls) == IF toolCalls.kind = "array" THEN toolCalls.items ELSE <<toolCalls>>

\* toolCallCount++ for each message that has tool calls
ToolCallsAdded_PerMessage(msg) == IF Truthy(msg.toolCalls) THEN 1 ELSE 0

\* toolCallCount += toolCalls.length
ToolCallsAdded(msg) == IF Truthy(msg.toolCalls) THEN Len(AsArray(msg.toolCalls)) ELSE 0

\* the role test as an else-branch of the toolCalls test
ToolResultsAdded_ElseIf(msg) == IF ~Truthy(msg.toolCalls) /\ msg.role = "tool" THEN 1 ELSE 0

\* if (msg.role === "tool") toolResultCount++
ToolResultsAdded(msg) == IF msg.role = "tool" THEN 1 ELSE 0

\* one iteration of the for loop over messages
LoopBody(msg, counts) ==
    [toolCallCount |-> counts.toolCallCount + ToolCallsAdded(msg),
     toolResultCount |-> counts.toolResultCount + ToolResultsAdded(msg)]

RECURSIVE CountLoop(_, _, _)
\* for (const msg of messages), from index i on
CountLoop(msgs, i, counts) ==
    IF i > Len(msgs) THEN counts
    ELSE CountLoop(msgs, i + 1, LoopBody(msgs[i], counts))

\* the loop started at index 1 of the zero-based array: the first message is skipped
CountMessages_SkipFirst(msgs) == CountLoop(msgs, 2, [toolCallCount |-> 0, toolResultCount |-> 0])

\* let toolCallCount = 0; let toolResultCount = 0; then the loop
CountMessages(msgs) == CountLoop(msgs, 1, [toolCallCount |-> 0, toolResultCount |-> 0])

MathMax(a, b) == IF a >= b THEN a ELSE b

\* Math.round(threshold / 2): halves round up
KeepRecent_Round(threshold) == MathMax(3, (threshold + 1) \div 2)

\* the threshold doubled instead of halved
KeepRecent_Doubled(threshold) == MathMax(3, threshold * 2)

\* Math.max(3, Math.floor(threshold / 2))
KeepRecent(threshold) == MathMax(3, threshold \div 2)

\* limit_tokens set from the trigger point instead of the target
Strategy1_LimitIsThreshold(strats, total, tokenLimitThreshold, tokenLimitTarget) ==
    IF total > tokenLimitThreshold
    THEN Append(strats, TokenLimit(tokenLimitThreshold))
    ELSE strats

\* limit_tokens set from the usage that was measured instead of the target
Strategy1_LimitIsTotal(strats, total, tokenLimitThreshold, tokenLimitTarget) ==
    IF total > tokenLimitThreshold
    THEN Append(strats, TokenLimit(total))
    ELSE strats

\* Strategy 1: token_limit when exceeding the threshold
Strategy1(strats, total, tokenLimitThreshold, tokenLimitTarget) ==
    IF total > tokenLimitThreshold
    THEN Append(strats, TokenLimit(tokenLimitTarget))
    ELSE strats

\* Strategy 2 without the strategies.length === 0 test
Strategy2_Stacked(strats, toolResultCount, toolResultThreshold) ==
    IF toolResultCount > toolResultThreshold
    THEN Append(strats, RemoveToolResult(KeepRecent(toolResultThreshold), "Done"))
    ELSE strats

\* Strategy 2 with < in place of >
Strategy2_Below(strats, toolResultCount, toolResultThreshold) ==
    IF toolResultCount < toolResultThreshold /\ Len(strats) = 0
    THEN Append(strats, RemoveToolResult(KeepRecent(toolResultThreshold), "Done"))
    ELSE strats

\* Strategy 2: remove_tool_result when many tool results exist and nothing was pushed
Strategy2(strats, toolResultCount, toolResultThreshold) ==
    IF toolResultCount > toolResultThreshold /\ Len(strats) = 0
    THEN Append(strats, RemoveToolResult(KeepRecent(toolResultThreshold), "Done"))
    ELSE strats

\* Strategy 3 with >= in place of >
Strategy3_AtThreshold(strats, toolCallCount, toolCallThreshold) ==
    IF toolCallCount >= toolCallThreshold /\ Len(strats) = 0
    THEN Append(strats, RemoveToolCallParams(KeepRecent(toolCallThreshold)))
    ELSE strats

\* Strategy 3: remove_tool_call_params when many tool calls exist and nothing was pushed
Strategy3(strats, toolCallCount, toolCallThreshold) ==
    IF toolCallCount > toolCallThreshold /\ Len(strats) = 0
    THEN Append(strats, RemoveToolCallParams(KeepRecent(toolCallThreshold)))
    ELSE strats

\* The body of determineEditStrategies, from the array `strats` it starts with
EditStrategiesFrom(strats, tc, msgs, cfg) ==
    LET tokenLimitThreshold == Coalesce(OptField(cfg, "tokenLimitThreshold"), DefaultTokenLimitThreshold)
        tokenLimitTarget == Coalesce(OptField(cfg, "tokenLimitTarget"), DefaultTokenLimitTarget)
        toolResultThreshold == Coalesce(OptField(cfg, "toolResultThreshold"), DefaultToolResultThreshold)
        toolCallThreshold == Coalesce(OptField(cfg, "toolCallThreshold"), DefaultToolCallThreshold)
    IN  IF NoSignal(tc) THEN strats
        ELSE LET counts == CountMessages(msgs)
                 s1 == Strategy1(strats, tc[1].total_tokens, tokenLimitThreshold, tokenLimitTarget)
                 s2 == Strategy2(s1, counts.toolResultCount, toolResultThreshold)
             IN  Strategy3(s2, counts.toolCallCount, toolCallThreshold)

\* the strategies array kept at module level and reused by every call
determineEditStrategies_SharedArray(tc, msgs, cfg) == EditStrategiesFrom(strategies, tc, msgs, cfg)

\* const strategies: EditStrategy[] = [] : every call starts from a fresh array
determineEditStrategies(tc, msgs, cfg) == EditStrategiesFrom(<<>>, tc, msgs, cfg)

----------------------------------------------------------------------------
(* Inputs the calls are made with *)

SeqsUpTo(S, n) == UNION {[1..k -> S] : k \in 0..n}

\* usage snapshots: absent, zero, around a small and around the default trigger point
TokenCountsValues == {Null} \cup {TokenCounts(n) : n \in {0, 2, 3, 80000, 80001}}

ToolCallsValues == {NoToolCalls, SingleCall, Array(0), Array(2)}

\* a user message, and assistant and tool messages with every shape of toolCalls
MessageValues ==
    {Message("user", NoToolCalls)} \cup
    {Message(r, t) : r \in {"assistant", "tool"}, t \in ToolCallsValues}

\* one agent round: an assistant message requesting n tool calls, k results received
Round(n, k) ==
    <<Message("assistant", Array(n))>> \o [i \in 1..k |-> Message("tool", NoToolCalls)]

Rounds == UNION {{Round(n, k) : k \in 0..n} : n \in 0..MaxRound}

\* the message arrays: every short one, and every agent round
MessagesValues == SeqsUpTo(MessageValues, MaxMsgs) \cup Rounds

\* each field omitted or supplied, independently; the whole configuration omitted
ConfigValues ==
    {Undefined} \cup
    {Config(a, b, c, d) :
        a \in {Undefined, Some(-1), Some(2)},
        b \in {Undefined, Some(0), Some(1)},
        c \in {Undefined, Some(-1), Some(1), Some(7)},
        d \in {Undefined, Some(0), Some(2), Some(8)}}

\* the inputs of the repeated calls of SpecRepeat
RepeatTokenCounts == {Null, TokenCounts(3)}

RepeatMessages == {<<>>, Round(2, 0), Round(2, 2)}

\* the defaults, a well-formed configuration, and a malformed one: negative
\* thresholds with the target above the trigger point
RepeatConfigs ==
    {Undefined,
     Config(Some(2), Some(1), Some(1), Some(0)),
     Config(Some(-1), Some(1), Some(-1), Some(0))}

----------------------------------------------------------------------------
(* The caller and the call *)

Call(tc, msgs, cfg, result) ==
    [tokenCounts |-> tc, messages |-> msgs, config |-> cfg, result |-> result]

\* the loop storing the normalised array back into each message
Normalised(msgs) ==
    [i \in DOMAIN msgs |->
        IF Truthy(msgs[i].toolCalls)
        THEN [msgs[i] EXCEPT !.toolCalls = [kind |-> "array", items |-> AsArray(@)]]
        ELSE msgs[i]]

Decide_NormalisingInPlace ==
    /\ pc = "ready"
    /\ strategies' = determineEditStrategies(tokenCounts, messages, config)
    /\ callLog' = Append(callLog, Call(tokenCounts, messages, config, strategies'))
    /\ pc' = "returned"
    /\ messages' = Normalised(messages)
    /\ UNCHANGED <<tokenCounts, config>>
    /\ UNCHANGED <<serviceVars, helperVars>>

\* thresholds validated on entry: a target not below the trigger point, or a
\* negative threshold, throws
Decide_Validating ==
    /\ pc = "ready"
    /\ LET a == Coalesce(OptField(config, "tokenLimitThreshold"), DefaultTokenLimitThreshold)
           b == Coalesce(OptField(config, "tokenLimitTarget"), DefaultTokenLimitTarget)
       IN  IF b >= a \/ a < 0
           THEN pc' = "threw" /\ UNCHANGED <<strategies, callLog>>
           ELSE /\ strategies' = determineEditStrategies(tokenCounts, messages, config)
                /\ callLog' = Append(callLog, Call(tokenCounts, messages, config, strategies'))
                /\ pc' = "returned"
    /\ UNCHANGED <<tokenCounts, messages, config>>
    /\ UNCHANGED <<serviceVars, helperVars>>

\* One call of determineEditStrategies on the caller's objects: the function
\* reads them and assigns only to its own locals.
Decide ==
    /\ pc = "ready"
    /\ strategies' = determineEditStrategies(tokenCounts, messages, config)
    /\ callLog' = Append(callLog, Call(tokenCounts, messages, config, strategies'))
    /\ pc' = "returned"
    /\ UNCHANGED <<tokenCounts, messages, config>>
    /\ UNCHANGED <<serviceVars, helperVars>>

\* The caller supplies the arguments of its next call
Prepare(tc, msgs, cfg) ==
    /\ pc = "returned"
    /\ Len(callLog) < MaxCalls
    /\ tokenCounts' = tc
    /\ messages' = msgs
    /\ config' = cfg
    /\ pc' = "ready"
    /\ UNCHANGED <<strategies, callLog>>
    /\ UNCHANGED <<serviceVars, helperVars>>

\* no service helper is in use: no client, nothing stored, nothing invoked
Callers == {1, 2}

SpaceUnused ==
    /\ userAcontextSpaces = <<>>
    /\ spacesCreated = 0
    /\ spacePc = [p \in Callers |-> "idle"]
    /\ spaceId = [p \in Callers |-> 0]
    /\ spaceReturns = <<>>

\* strings the helpers take apart are sequences of characters
Root == <<"/">>

\* a Disk holding nothing but its root directory
EmptyTree ==
    [dirs |-> {Root}, children |-> [d \in {Root} |-> <<>>], files |-> [d \in {Root} |-> <<>>]]

DiskUnused ==
    /\ disk = [tree |-> EmptyTree, style |-> "name", omitsEmpty |-> FALSE]
    /\ failing = [paths |-> {}, how |-> "throws"]
    /\ diskPc = "idle"
    /\ diskPending = <<>>
    /\ allArtifacts = <<>>
    /\ listedPaths = <<>>
    /\ diskResult = Null

ErrorsUnused ==
    /\ thrown = [kind |-> "undefined"]
    /\ includeDetails = FALSE
    /\ errorPc = "idle"
    /\ response = Null

MaskUnused ==
    /\ maskInput = <<>>
    /\ maskPc = "idle"
    /\ maskOutput = <<>>

HelpersUnused == SpaceUnused /\ DiskUnused /\ ErrorsUnused /\ MaskUnused

ServiceUnused ==
    /\ acontext = FALSE
    /\ stored = <<>>
    /\ chatSession = [id |-> "c1", acontextSessionId |-> Undefined]
    /\ dbRow = Undefined
    /\ trace = <<>>

Init ==
    /\ tokenCounts \in TokenCountsValues
    /\ messages \in MessagesValues
    /\ config \in ConfigValues
    /\ strategies = <<>>
    /\ pc = "ready"
    /\ callLog = <<>>
    /\ ServiceUnused
    /\ HelpersUnused

Next == Decide

Spec == Init /\ [][Next]_vars

\* the inputs of the calls compared across message arrays: usage absent, zero
\* and present; every tool threshold; the token trigger point at its default
\* or just below the usage
HistoryTokenCounts == {Null, TokenCounts(0), TokenCounts(3)}

HistoryConfigs ==
    {Undefined} \cup
    {Config(a, Undefined, c, d) :
        a \in {Undefined, Some(2)},
        c \in {Undefined, Some(-1), Some(1), Some(7)},
        d \in {Undefined, Some(0), Some(2), Some(8)}}

InitHistory ==
    /\ tokenCounts \in HistoryTokenCounts
    /\ messages \in MessagesValues
    /\ config \in HistoryConfigs
    /\ strategies = <<>>
    /\ pc = "ready"
    /\ callLog = <<>>
    /\ ServiceUnused
    /\ HelpersUnused

SpecHistory == InitHistory /\ [][Next]_vars

InitRepeat ==
    /\ tokenCounts \in RepeatTokenCounts
    /\ messages \in RepeatMessages
    /\ config \in RepeatConfigs
    /\ strategies = <<>>
    /\ pc = "ready"
    /\ callLog = <<>>
    /\ ServiceUnused
    /\ HelpersUnused

NextRepeat ==
    \/ Decide
    \/ \E tc \in RepeatTokenCounts, msgs \in RepeatMessages, cfg \in RepeatConfigs :
          Prepare(tc, msgs, cfg)

SpecRepeat == InitRepeat /\ [][NextRepeat]_vars

----------------------------------------------------------------------------
(* The context service helpers: getOrCreateAcontextSession,
   getAcontextTokenCounts, loadMessagesFromAcontext *)

\* one call issued to the SDK or to the session store, with what came back
SdkCall(op, args, reply) == [op |-> op, args |-> args, reply |-> reply]

\* one invocation of a helper: its arguments, the calls it issued in order,
\* whether it threw, and the value it returned
Invocation(fn, args, sdk, threw, value) ==
    [fn |-> fn, args |-> args, sdk |-> sdk, threw |-> threw, value |-> value]

\* a call that rejects with an Error whose message is e
Throws(e) == [kind |-> "throws", error |-> e, body |-> <<>>]

\* a call that resolves: body is <<>> for null/undefined, <<v>> for the value v
Resolves(body) == [kind |-> "resolves", error |-> "", body |-> body]

ErrorMessages == {"fetch failed", "api error"}

\* logAcontextError: a network error makes it ping the service when a client
\* exists; the outcome of the ping is caught and only logged
LogAcontextError(error) ==
    IF error = "fetch failed" /\ acontext
    THEN <<SdkCall("ping", <<>>, Resolves(<<>>))>>
    ELSE <<>>

\* x || 0 on an optional number
OrZero(v) == IF v = Undefined \/ v = Some(0) THEN 0 ELSE v[1]

\* what getTokenCounts can come back with
TokenCountsReplies ==
    {Throws(e) : e \in ErrorMessages} \cup {Resolves(<<>>)} \cup
    {Resolves(Some([total_tokens |-> t])) : t \in {Undefined, Some(0), Some(3), Some(80001)}}

SessionIds == {"", "s1"}

\* the value getAcontextTokenCounts returns once the call was issued
TokenCountsValue(reply) ==
    IF reply.kind = "throws" THEN Null
    ELSE IF reply.body = <<>> THEN Null
    ELSE TokenCounts(OrZero(reply.body[1].total_tokens))

\* getAcontextTokenCounts without its try/catch: a rejected call propagates
GetAcontextTokenCounts_NoCatch(acontextSessionId, reply) ==
    /\ pc = "counts"
    /\ LET skipped == ~acontext \/ acontextSessionId = ""
           sdk == IF skipped THEN <<>>
                  ELSE <<SdkCall("sessions.getTokenCounts", <<acontextSessionId>>, reply)>>
           threw == ~skipped /\ reply.kind = "throws"
           value == IF skipped THEN Null ELSE TokenCountsValue(reply)
       IN  /\ skipped => reply = Resolves(<<>>)
           /\ trace' = Append(trace,
                  Invocation("getAcontextTokenCounts", <<acontextSessionId>>, sdk, threw, value))
           /\ tokenCounts' = IF threw THEN tokenCounts ELSE value
    /\ pc' = "ready"
    /\ UNCHANGED <<messages, config, strategies, callLog>>
    /\ UNCHANGED <<acontext, stored, chatSession, dbRow, helperVars>>

\* getAcontextTokenCounts(acontextSessionId); the caller keeps the value as its
\* token counts for the decision that follows
GetAcontextTokenCounts(acontextSessionId, reply) ==
    /\ pc = "counts"
    /\ LET skipped == ~acontext \/ acontextSessionId = ""
           sdk == IF skipped THEN <<>>
                  ELSE <<SdkCall("sessions.getTokenCounts", <<acontextSessionId>>, reply)>>
                       \o (IF reply.kind = "throws" THEN LogAcontextError(reply.error) ELSE <<>>)
           value == IF skipped THEN Null ELSE TokenCountsValue(reply)
       IN  /\ skipped => reply = Resolves(<<>>)
           /\ trace' = Append(trace,
                  Invocation("getAcontextTokenCounts", <<acontextSessionId>>, sdk, FALSE, value))
           /\ tokenCounts' = value
    /\ pc' = "ready"
    /\ UNCHANGED <<messages, config, strategies, callLog>>
    /\ UNCHANGED <<acontext, stored, chatSession, dbRow, helperVars>>

\* chatSession.acontextSessionId tested as a condition: undefined and "" are falsy
HasSessionId_Never(cs) == FALSE

HasSessionId(cs) == cs.acontextSessionId # Undefined /\ cs.acontextSessionId # Some("")

UserIds == {"u1"}

\* what sessions.create can come back with
CreateReplies == {Throws(e) : e \in ErrorMessages} \cup {Resolves(Some([id |-> "s2"]))}

\* what importing the store client, creating it and awaiting the update can
\* come to: a throw, or a result whose error field is null or set
UpdateReplies ==
    {Throws(e) : e \in ErrorMessages}
    \cup {Resolves(Some([error |-> e])) : e \in {Null, Some("db error")}}

\* getOrCreateAcontextSession(chatSession, userId)
GetOrCreateAcontextSession(userId, createReply, updateReply) ==
    /\ pc = "session"
    /\ LET creates == acontext /\ ~HasSessionId(chatSession)
           created == creates /\ createReply.kind = "resolves"
           updated == created /\ updateReply.kind = "resolves"
           configs == [userId |-> userId, chatSessionId |-> chatSession.id,
                       source |-> "nextjs-with-supabase-chatbot"]
           createCall == SdkCall("sessions.create", <<[configs |-> configs]>>, createReply)
           updateCall == SdkCall("chat_sessions.update",
                                 <<[acontext_session_id |-> createReply.body[1].id],
                                   [id |-> chatSession.id]>>, updateReply)
           sdk == IF ~creates THEN <<>>
                  ELSE IF ~created THEN <<createCall>> \o LogAcontextError(createReply.error)
                  ELSE IF ~updated
                       THEN <<createCall, updateCall>> \o LogAcontextError(updateReply.error)
                  ELSE <<createCall, updateCall>>
           value == IF ~acontext THEN Null
                    ELSE IF ~creates THEN chatSession.acontextSessionId
                    ELSE IF updated THEN Some(createReply.body[1].id)
                    ELSE Null
       IN  /\ ~creates => createReply = Throws("api error")
           /\ ~created => updateReply = Throws("api error")
           /\ trace' = Append(trace,
                  Invocation("getOrCreateAcontextSession", <<chatSession, userId>>,
                             sdk, FALSE, value))
           /\ dbRow' = IF updated /\ updateReply.body[1].error = Null
                       THEN Some(createReply.body[1].id)
                       ELSE dbRow
    /\ pc' = "counts"
    /\ UNCHANGED <<tokenCounts, messages, config, strategies, callLog>>
    /\ UNCHANGED <<acontext, stored, chatSession, helperVars>>

\* a message as the service holds it: every field may be missing
StoredMessage(id, role, content, created_at, tool_calls) ==
    [id |-> id, role |-> role, content |-> content, created_at |-> created_at,
     timestamp |-> Undefined, tool_calls |-> tool_calls]

StoredSample ==
    <<StoredMessage(Some("m1"), Some("user"), [kind |-> "string", text |-> "hi"],
                    Some("t1"), Undefined),
      StoredMessage(Undefined, Undefined, [kind |-> "array", text |-> "parts"],
                    Undefined, Some(<<"call1">>)),
      StoredMessage(Some(""), Some("assistant"), [kind |-> "undefined", text |-> ""],
                    Undefined, Some(<<>>))>>

\* a || b on optional strings: the empty string is falsy
OrElse(a, b) == IF a = Undefined \/ a = Some("") THEN b ELSE a

\* typeof content === "string" ? content
\*   : Array.isArray(content) ? JSON.stringify(content) : String(content)
ContentString(content) ==
    [by |-> IF content.kind = "string" THEN "itself"
            ELSE IF content.kind = "array" THEN "JSON.stringify"
            ELSE "String",
     of |-> content.text]

\* the object built for the item at (zero-based) index
ChatMessage(msg, index, acontextSessionId) ==
    [id |-> IF OrElse(msg.id, Undefined) = Undefined
            THEN <<"acontext-", index>> ELSE <<msg.id[1]>>,
     sessionId |-> acontextSessionId,
     role |-> OrElse(msg.role, Some("user"))[1],
     content |-> ContentString(msg.content),
     createdAt |-> OrElse(msg.created_at, OrElse(msg.timestamp, Some("new Date()")))[1],
     toolCalls |-> msg.tool_calls]

\* what the retrieval can come back with for a session holding msgs: a throw,
\* null, an object without items, or the items the service chose to show (all
\* of them or, compacted on the fly, a suffix of them)
GetMessagesReplies(msgs) ==
    {Throws(e) : e \in ErrorMessages}
    \cup {Resolves(<<>>), Resolves(Some([items |-> Undefined]))}
    \cup {Resolves(Some([items |-> Some(SubSeq(msgs, i, Len(msgs)))])) :
             i \in 1..(Len(msgs) + 1)}

\* the options object with editStrategies set whenever the argument is given
LoadOptions_NoLengthTest(editStrategies) ==
    [format |-> "openai", editStrategies |-> editStrategies]

\* the options object: format "openai", and editStrategies only when the
\* argument is given and not empty
LoadOptions(editStrategies) ==
    [format |-> "openai",
     editStrategies |-> IF editStrategies # Undefined /\ Len(editStrategies[1]) > 0
                        THEN editStrategies ELSE Undefined]

\* a retrieval that also writes what it retrieved back to the session
LoadCalls_Storing(acontextSessionId, editStrategies, reply) ==
    <<SdkCall("sessions.getMessages",
              <<acontextSessionId, LoadOptions(editStrategies)>>, reply)>>
    \o (IF reply.kind = "throws" THEN LogAcontextError(reply.error)
        ELSE <<SdkCall("sessions.storeMessage", <<acontextSessionId>>, Resolves(<<>>))>>)

\* the calls loadMessagesFromAcontext issues once past its guard
LoadCalls(acontextSessionId, editStrategies, reply) ==
    <<SdkCall("sessions.getMessages",
              <<acontextSessionId, LoadOptions(editStrategies)>>, reply)>>
    \o (IF reply.kind = "throws" THEN LogAcontextError(reply.error) ELSE <<>>)

\* the array loadMessagesFromAcontext returns once the call was issued
LoadValue(acontextSessionId, reply) ==
    IF reply.kind = "throws" THEN <<>>
    ELSE IF reply.body = <<>> THEN <<>>
    ELSE IF reply.body[1].items = Undefined THEN <<>>
    ELSE LET items == reply.body[1].items[1]
         IN  [i \in DOMAIN items |-> ChatMessage(items[i], i - 1, acontextSessionId)]

\* loadMessagesFromAcontext(acontextSessionId, editStrategies)
LoadMessagesFromAcontext(acontextSessionId, editStrategies, reply) ==
    /\ pc = "returned"
    /\ LET skipped == ~acontext \/ acontextSessionId = ""
           sdk == IF skipped THEN <<>>
                  ELSE LoadCalls(acontextSessionId, editStrategies, reply)
           value == IF skipped THEN <<>> ELSE LoadValue(acontextSessionId, reply)
       IN  /\ skipped => reply = Resolves(<<>>)
           /\ trace' = Append(trace,
                  Invocation("loadMessagesFromAcontext",
                             <<acontextSessionId, editStrategies>>, sdk, FALSE, value))
    /\ pc' = "loaded"
    /\ UNCHANGED <<tokenCounts, messages, config, strategies, callLog>>
    /\ UNCHANGED <<acontext, stored, chatSession, dbRow, helperVars>>

\* the directive arrays a caller hands to the retrieval: none, an empty one,
\* fixed ones, and the ones determineEditStrategies just returned
EditStrategiesValues ==
    {Undefined, Some(<<>>), Some(<<TokenLimit(1)>>),
     Some(<<RemoveToolCallParams(3), RemoveToolResult(3, "Done")>>),
     Some(strategies)}

ServiceMessages == Round(2, 2)

ServiceConfigs == {Undefined, Config(Some(2), Some(1), Some(1), Some(0))}

InitService ==
    /\ tokenCounts = Null
    /\ messages = ServiceMessages
    /\ config \in ServiceConfigs
    /\ strategies = <<>>
    /\ pc = "session"
    /\ callLog = <<>>
    /\ acontext \in BOOLEAN
    /\ stored \in {<<>>, StoredSample}
    /\ chatSession \in {[id |-> "c1", acontextSessionId |-> a] :
                           a \in {Undefined, Some(""), Some("s1")}}
    /\ dbRow = chatSession.acontextSessionId
    /\ trace = <<>>
    /\ HelpersUnused

NextService ==
    \/ \E u \in UserIds, c \in CreateReplies, r \in UpdateReplies :
          GetOrCreateAcontextSession(u, c, r)
    \/ \E id \in SessionIds, r \in TokenCountsReplies : GetAcontextTokenCounts(id, r)
    \/ Decide
    \/ \E id \in SessionIds, es \in EditStrategiesValues, r \in GetMessagesReplies(stored) :
          LoadMessagesFromAcontext(id, es, r)

SpecService == InitService /\ [][NextService]_vars

----------------------------------------------------------------------------
(* getOrCreateUserSpaceId: calls for one user, each suspended at its awaits *)

SpaceCallsStarted ==
    Len(spaceReturns) + Cardinality({p \in Callers : spacePc[p] # "idle"})

\* the call of caller p returns v
ReturnSpaceId(p, v) ==
    /\ spaceReturns' = Append(spaceReturns, v)
    /\ spacePc' = [spacePc EXCEPT ![p] = "idle"]
    /\ spaceId' = [spaceId EXCEPT ![p] = 0]

\* entry: without a client the call returns null, otherwise it goes on to the
\* mapping lookup
EnterGetOrCreateUserSpaceId(p) ==
    /\ spacePc[p] = "idle"
    /\ SpaceCallsStarted < MaxSpaceCalls
    /\ IF ~acontext
       THEN ReturnSpaceId(p, Null)
       ELSE /\ spacePc' = [spacePc EXCEPT ![p] = "select"]
            /\ UNCHANGED <<spaceId, spaceReturns>>
    /\ UNCHANGED <<userAcontextSpaces, spacesCreated>>
    /\ UNCHANGED <<decideVars, serviceVars, diskVars, errorVars, maskVars>>

SelectOutcomes == {"throws", "error", "data"}

\* 1) the mapping lookup: a throw or an error returns null; maybeSingle gives
\* an error for more than one row, the row's space_id for one, no data for none
SelectMapping(p, outcome) ==
    /\ spacePc[p] = "select"
    /\ Len(userAcontextSpaces) > 1 => outcome # "data"
    /\ IF outcome \in {"throws", "error"}
       THEN ReturnSpaceId(p, Null)
       ELSE IF Len(userAcontextSpaces) = 1
       THEN ReturnSpaceId(p, Some(userAcontextSpaces[1]))
       ELSE /\ spacePc' = [spacePc EXCEPT ![p] = "create"]
            /\ UNCHANGED <<spaceId, spaceReturns>>
    /\ UNCHANGED <<userAcontextSpaces, spacesCreated>>
    /\ UNCHANGED <<decideVars, serviceVars, diskVars, errorVars, maskVars>>

CreateOutcomes == {"throws", "no id", "id"}

\* 2) spaces.create: a rejected request creates nothing and returns null; a
\* Space whose response carries no id is created and the call returns null
CreateSpace(p, outcome) ==
    /\ spacePc[p] = "create"
    /\ IF outcome = "throws"
       THEN ReturnSpaceId(p, Null) /\ UNCHANGED spacesCreated
       ELSE IF outcome = "no id"
       THEN ReturnSpaceId(p, Null) /\ spacesCreated' = spacesCreated + 1
       ELSE /\ spacesCreated' = spacesCreated + 1
            /\ spaceId' = [spaceId EXCEPT ![p] = spacesCreated + 1]
            /\ spacePc' = [spacePc EXCEPT ![p] = "insert"]
            /\ UNCHANGED spaceReturns
    /\ UNCHANGED userAcontextSpaces
    /\ UNCHANGED <<decideVars, serviceVars, diskVars, errorVars, maskVars>>

InsertOutcomes == {"ok", "error", "throws"}

\* 3) the best-effort insert of the mapping, then return spaceId: an insert
\* error or throw is only warned about
PersistMapping(p, outcome) ==
    /\ spacePc[p] = "insert"
    /\ userAcontextSpaces' = IF outcome = "ok"
                             THEN Append(userAcontextSpaces, spaceId[p])
                             ELSE userAcontextSpaces
    /\ ReturnSpaceId(p, Some(spaceId[p]))
    /\ UNCHANGED spacesCreated
    /\ UNCHANGED <<decideVars, serviceVars, diskVars, errorVars, maskVars>>

InitSpace ==
    /\ tokenCounts = Null
    /\ messages = <<>>
    /\ config = Undefined
    /\ strategies = <<>>
    /\ pc = "space"
    /\ callLog = <<>>
    /\ acontext \in BOOLEAN
    /\ stored = <<>>
    /\ chatSession = [id |-> "c1", acontextSessionId |-> Undefined]
    /\ dbRow = Undefined
    /\ trace = <<>>
    /\ HelpersUnused

NextSpace ==
    \/ \E p \in Callers : EnterGetOrCreateUserSpaceId(p)
    \/ \E p \in Callers, o \in SelectOutcomes : SelectMapping(p, o)
    \/ \E p \in Callers, o \in CreateOutcomes : CreateSpace(p, o)
    \/ \E p \in Callers, o \in InsertOutcomes : PersistMapping(p, o)

SpecSpace == InitSpace /\ [][NextSpace]_vars

----------------------------------------------------------------------------
(* listAcontextArtifacts and listArtifactsRecursive *)

\* the path of the directory called name inside the directory at path parent
Sub(parent, name) == parent \o name \o <<"/">>

DirA == Sub(Root, <<"a">>)
DirAC == Sub(DirA, <<"c">>)
DirB == Sub(Root, <<"b", "2">>)

\* an artifact as the service lists it: every field may be missing
Item(id, path, filename, size) ==
    [id |-> id, path |-> path, filename |-> filename,
     mimeType |-> Undefined, contentType |-> Undefined,
     size |-> size, length |-> Undefined,
     createdAt |-> Undefined, created_at |-> Undefined, timestamp |-> Undefined]

File(dir, name) == Item(Some(<<"#">> \o name), Some(dir \o name), Some(name), Some(7))

\* an artifact listed with its path only
PathOnly(dir, name) == Item(Undefined, Some(dir \o name), Undefined, Undefined)

BranchingTree ==
    [dirs |-> {Root, DirA, DirAC, DirB},
     children |-> (Root :> <<<<"a">>, <<"b", "2">>>>) @@ (DirA :> <<<<"c">>>>)
                  @@ (DirAC :> <<>>) @@ (DirB :> <<>>),
     files |-> (Root :> <<File(Root, <<"r">>)>>) @@ (DirA :> <<PathOnly(DirA, <<"p">>)>>)
               @@ (DirAC :> <<File(DirAC, <<"x">>), File(DirAC, <<"y">>)>>)
               @@ (DirB :> <<File(DirB, <<"z">>)>>)]

ChainTree ==
    [dirs |-> {Root, DirA, DirAC},
     children |-> (Root :> <<<<"a">>>>) @@ (DirA :> <<<<"c">>>>) @@ (DirAC :> <<>>),
     files |-> (Root :> <<>>) @@ (DirA :> <<File(DirA, <<"p">>)>>)
               @@ (DirAC :> <<PathOnly(DirAC, <<"x">>)>>)]

Trees == {EmptyTree, ChainTree, BranchingTree}

\* how a listing names a subdirectory: by its name or by its full path, with
\* or without the closing slash
Styles == {"name", "name/", "absolute", "absolute/"}

Entry(parent, name, style) ==
    IF style = "name" THEN name
    ELSE IF style = "name/" THEN name \o <<"/">>
    ELSE IF style = "absolute" THEN parent \o name
    ELSE Sub(parent, name)

\* what disks.artifacts.list(diskId, {path}) comes back with
Listing(path) ==
    IF path \notin disk.tree.dirs \/ (path \in failing.paths /\ failing.how = "throws")
    THEN Throws("api error")
    ELSE IF path \in failing.paths
    THEN Resolves(<<>>)
    ELSE LET names == disk.tree.children[path]
             items == disk.tree.files[path]
         IN  Resolves(Some(
                 [artifacts |-> IF items = <<>> /\ disk.omitsEmpty
                                THEN Undefined ELSE Some(items),
                  directories |-> IF names = <<>> /\ disk.omitsEmpty
                                  THEN Undefined
                                  ELSE Some([k \in DOMAIN names |->
                                                 Entry(path, names[k], disk.style)])]))

\* a || b || c on optional strings
FirstString(options) ==
    LET given == {k \in DOMAIN options :
                     options[k] # Undefined /\ options[k] # Some(<<>>)}
    IN  IF given = {} THEN options[Len(options)]
        ELSE options[CHOOSE k \in given : \A j \in given : k <= j]

\* a || b || 0 on optional numbers
FirstNumber(a, b) ==
    IF a # Undefined /\ a # Some(0) THEN a[1]
    ELSE IF b # Undefined /\ b # Some(0) THEN b[1]
    ELSE 0

\* path?.split('/').pop()
LastSegment(path) ==
    IF path = Undefined THEN Undefined
    ELSE LET str == path[1]
             slashes == {k \in DOMAIN str : str[k] = "/"}
             from == IF slashes = {} THEN 0
                     ELSE CHOOSE k \in slashes : \A j \in slashes : j <= k
         IN  Some(SubSeq(str, from + 1, Len(str)))

NormalizedArtifact(item) ==
    [id |-> FirstString(<<item.id, item.path, item.filename>>),
     path |-> FirstString(<<item.path, item.filename>>),
     filename |-> FirstString(<<item.filename, LastSegment(item.path),
                                Some(<<"u", "n", "k", "n", "o", "w", "n">>)>>),
     mimeType |-> FirstString(<<item.mimeType, item.contentType,
                                Some(<<"application/octet-stream">>)>>),
     size |-> FirstNumber(item.size, item.length),
     createdAt |-> FirstString(<<item.createdAt, item.created_at, item.timestamp>>)]

StartsWithSlash(str) == Len(str) > 0 /\ str[1] = "/"
EndsWithSlash(str) == Len(str) > 0 /\ str[Len(str)] = "/"

\* the separator added whether or not path already ends with one
DirPath_AlwaysSeparator(path, directory) ==
    IF StartsWithSlash(directory) THEN directory ELSE path \o <<"/">> \o directory

\* directory.startsWith('/') ? directory
\*   : `${path}${path.endsWith('/') ? '' : '/'}${directory}`
DirPath(path, directory) ==
    IF StartsWithSlash(directory) THEN directory
    ELSE path \o (IF EndsWithSlash(path) THEN <<>> ELSE <<"/">>) \o directory

\* dirPath.endsWith('/') ? dirPath : `${dirPath}/`
NormalizedPath(dirPath) == IF EndsWithSlash(dirPath) THEN dirPath ELSE dirPath \o <<"/">>

DiskIds == {Undefined, Some(""), Some("d1")}

\* what disks.list() can come back with
DisksReplies ==
    {Throws(e) : e \in ErrorMessages}
    \cup {Resolves(<<>>), Resolves(Some([items |-> Undefined]))}
    \cup {Resolves(Some([items |-> Some(ds)])) : ds \in {<<>>, <<[id |-> "d1"]>>}}

\* listAcontextArtifacts(diskId) up to its call of listArtifactsRecursive on "/"
ListAcontextArtifacts(diskId, disksReply) ==
    /\ diskPc = "idle"
    /\ LET given == diskId # Undefined /\ diskId # Some("")
           asked == acontext /\ ~given
           found == /\ disksReply.kind = "resolves"
                    /\ disksReply.body # <<>>
                    /\ disksReply.body[1].items # Undefined
                    /\ Len(disksReply.body[1].items[1]) > 0
       IN  /\ ~asked => disksReply = Resolves(<<>>)
           /\ IF ~acontext
              THEN diskPc' = "done" /\ diskResult' = Null /\ diskPending' = <<>>
              ELSE IF given \/ found
              THEN diskPc' = "listing" /\ diskResult' = Null /\ diskPending' = <<Root>>
              ELSE IF disksReply.kind = "throws"
              THEN diskPc' = "done" /\ diskResult' = Null /\ diskPending' = <<>>
              ELSE diskPc' = "done" /\ diskResult' = Some(<<>>) /\ diskPending' = <<>>
    /\ UNCHANGED <<disk, failing, allArtifacts, listedPaths>>
    /\ UNCHANGED <<decideVars, serviceVars, spaceVars, errorVars, maskVars>>

\* one call of listArtifactsRecursive up to its first recursive call: it lists
\* path, appends the normalised artifacts to the shared array and goes through
\* the directories in order.  The calls are awaited one after the other, so
\* the paths still to be listed are the listed directories, in order, ahead of
\* the callers' remaining ones; a rejected or empty listing adds nothing.  When
\* no path remains the outermost call returns the array.
ListArtifactsRecursive ==
    /\ diskPc = "listing"
    /\ diskPending # <<>>
    /\ LET path == Head(diskPending)
           result == Listing(path)
           listed == result.kind = "resolves" /\ result.body # <<>>
           items == IF listed /\ result.body[1].artifacts # Undefined
                    THEN result.body[1].artifacts[1] ELSE <<>>
           directories == IF listed /\ result.body[1].directories # Undefined
                          THEN result.body[1].directories[1] ELSE <<>>
           pending == [k \in DOMAIN directories |->
                          NormalizedPath(DirPath(path, directories[k]))]
                      \o Tail(diskPending)
           collected == allArtifacts \o [k \in DOMAIN items |-> NormalizedArtifact(items[k])]
       IN  /\ listedPaths' = Append(listedPaths, path)
           /\ allArtifacts' = collected
           /\ diskPending' = pending
           /\ IF pending = <<>>
              THEN diskPc' = "done" /\ diskResult' = Some(collected)
              ELSE UNCHANGED <<diskPc, diskResult>>
    /\ UNCHANGED <<disk, failing>>
    /\ UNCHANGED <<decideVars, serviceVars, spaceVars, errorVars, maskVars>>

InitDisk ==
    /\ tokenCounts = Null
    /\ messages = <<>>
    /\ config = Undefined
    /\ strategies = <<>>
    /\ pc = "disk"
    /\ callLog = <<>>
    /\ acontext \in BOOLEAN
    /\ stored = <<>>
    /\ chatSession = [id |-> "c1", acontextSessionId |-> Undefined]
    /\ dbRow = Undefined
    /\ trace = <<>>
    /\ SpaceUnused
    /\ ErrorsUnused
    /\ MaskUnused
    /\ disk \in [tree : Trees, style : Styles, omitsEmpty : BOOLEAN]
    /\ failing \in {[paths |-> {}, how |-> "throws"]}
                   \cup [paths : {{d} : d \in disk.tree.dirs}, how : {"throws", "null"}]
    /\ diskPc = "idle"
    /\ diskPending = <<>>
    /\ allArtifacts = <<>>
    /\ listedPaths = <<>>
    /\ diskResult = Null

NextDisk ==
    \/ \E d \in DiskIds, r \in DisksReplies : ListAcontextArtifacts(d, r)
    \/ ListArtifactsRecursive

\* every awaited call settles, so a call that can go on does go on
SpecDisk == InitDisk /\ [][NextDisk]_vars /\ WF_vars(NextDisk)

----------------------------------------------------------------------------
(* chat-errors.ts: createChatError, maskSensitiveInfo, formatErrorResponse.
   A string is the sequence of its characters; a fixed text that nothing takes
   apart is written as one element *)

\* [a-zA-Z0-9]
Alnum ==
    {"a", "b", "c", "d", "e", "f", "g", "h", "i", "j", "k", "l", "m", "n", "o", "p", "q",
     "r", "s", "t", "u", "v", "w", "x", "y", "z",
     "A", "B", "C", "D", "E", "F", "G", "H", "I", "J", "K", "L", "M", "N", "O", "P", "Q",
     "R", "S", "T", "U", "V", "W", "X", "Y", "Z",
     "0", "1", "2", "3", "4", "5", "6", "7", "8", "9"}

\* {32,}: the shortest run of [a-zA-Z0-9] the two patterns match
KeyRun == 32

\* match.substring(0, 8)
KeptPrefix == 8

createChatError(code, message, details) ==
    [code |-> code, message |-> message, details |-> details]

RECURSIVE RunLength(_, _)
\* the number of consecutive [a-zA-Z0-9] characters of str from position i on
RunLength(str, i) ==
    IF i > Len(str) \/ str[i] \notin Alnum THEN 0 ELSE 1 + RunLength(str, i + 1)

RECURSIVE ReplaceSk(_, _)
\* .replace(/sk-[a-zA-Z0-9]{32,}/g, "sk-***") from position i on
ReplaceSk(str, i) ==
    IF i > Len(str) THEN <<>>
    ELSE IF /\ i + 2 <= Len(str)
            /\ SubSeq(str, i, i + 2) = <<"s", "k", "-">>
            /\ RunLength(str, i + 3) >= KeyRun
    THEN <<"s", "k", "-", "*", "*", "*">> \o ReplaceSk(str, i + 3 + RunLength(str, i + 3))
    ELSE <<str[i]>> \o ReplaceSk(str, i + 1)

RECURSIVE ReplaceLong(_, _)
\* .replace(/[a-zA-Z0-9]{32,}/g, match => match.length > 32
\*     ? match.substring(0, 8) + "***" : match) from position i on
ReplaceLong(str, i) ==
    IF i > Len(str) THEN <<>>
    ELSE LET n == RunLength(str, i)
         IN  IF n >= KeyRun
             THEN (IF n > KeyRun
                   THEN SubSeq(str, i, i + KeptPrefix - 1) \o <<"*", "*", "*">>
                   ELSE SubSeq(str, i, i + n - 1))
                  \o ReplaceLong(str, i + n)
             ELSE <<str[i]>> \o ReplaceLong(str, i + 1)

maskSensitiveInfo(message) == ReplaceLong(ReplaceSk(message, 1), 1)

\* n alphanumeric characters
Run(n) == [k \in 1..n |-> IF k % 2 = 1 THEN "a" ELSE "7"]

Sk == <<"s", "k", "-">>

\* messages around the two patterns: short ones, runs just below, at and above
\* the matched length, with and without the sk- prefix, alone and inside text
MessageTexts ==
    {<<>>, <<"o", "o", "p", "s">>,
     Run(KeyRun - 1), Run(KeyRun), Run(KeyRun + 1),
     Sk \o Run(KeyRun - 1), Sk \o Run(KeyRun), Sk \o Run(KeyRun + 1),
     <<"k", "e", "y", " ">> \o Run(KeyRun + 2) \o <<" ", "!">>,
     <<"a">> \o Sk \o Run(KeyRun) \o <<".">> \o Run(KeyRun + 1)}

\* error.message of an Error instance: a string, or whatever was assigned to it
MessageValues_Error ==
    {[type |-> "string", text |-> t] : t \in MessageTexts}
    \cup {[type |-> "number", text |-> <<"4", "2">>], [type |-> "undefined", text |-> <<>>]}

\* the values a caller can hand over as `error: unknown`
ErrorValue(kind, proto, message, stack, hasCode, text) ==
    [kind |-> kind, proto |-> proto, message |-> message, stack |-> stack,
     details |-> Undefined, hasCode |-> hasCode, text |-> text]

\* the same value with a details property attached
WithDetails(value, details) == [value EXCEPT !.details = details]

DetailsValues == {Undefined, Some(<<"upstream body">>)}

NoMessage == [type |-> "undefined", text |-> <<>>]

ErrorInstances ==
    {WithDetails(ErrorValue("Error", "Error", m, st, c, <<>>), d) :
        m \in MessageValues_Error, st \in {Undefined, Some(<<"at chat">>)}, c \in BOOLEAN,
        d \in DetailsValues}

\* objects that are no Error: ordinary ones and ones without a prototype
\* (Object.create(null)), with or without a code property, a message and details
Objects ==
    {WithDetails(ErrorValue("object", pr, m, Undefined, c, <<>>), d) :
        pr \in {"Object", "null"}, c \in BOOLEAN,
        m \in {NoMessage, [type |-> "string", text |-> Sk \o Run(KeyRun + 1)]},
        d \in DetailsValues}

Primitives ==
    {ErrorValue("null", "", NoMessage, Undefined, FALSE, <<"null">>),
     ErrorValue("undefined", "", NoMessage, Undefined, FALSE, <<"undefined">>),
     ErrorValue("string", "", NoMessage, Undefined, FALSE, <<"b", "o", "o", "m">>),
     ErrorValue("number", "", NoMessage, Undefined, FALSE, <<"4", "0", "4">>)}

ErrorValues == ErrorInstances \cup Objects \cup Primitives

\* String(error) of a value that is no Error: the primitive's text, the
\* result of Object.prototype.toString for an ordinary object, and a TypeError
\* for an object that has no toString to call
StringOf(v) ==
    IF v.kind = "object"
    THEN IF v.proto = "null" THEN Throws("Cannot convert object to primitive value")
         ELSE Resolves(Some(<<"[object Object]">>))
    ELSE Resolves(Some(v.text))

\* message.replace(...) of maskSensitiveInfo on error.message: a TypeError
\* when the message is no string
MaskedMessage(message) ==
    IF message.type = "string" THEN Resolves(Some(maskSensitiveInfo(message.text)))
    ELSE Throws("message.replace is not a function")

\* what formatErrorResponse(error, includeDetails) comes to: the ChatError
\* returned, or the error thrown
formatErrorResponse(err, details) ==
    IF err.kind = "Error"
    THEN LET message == MaskedMessage(err.message)
         IN  IF message.kind = "throws" THEN message
             ELSE Resolves(Some(createChatError("CHAT_ERROR", message.body[1],
                                                IF details THEN err.stack ELSE Undefined)))
    ELSE IF err.kind = "object" /\ err.hasCode
    THEN Resolves(Some(err))
    ELSE IF ~details
    THEN Resolves(Some(createChatError("UNKNOWN_ERROR", <<"An unexpected error occurred">>,
                                       Undefined)))
    ELSE LET str == StringOf(err)
         IN  IF str.kind = "throws" THEN str
             ELSE Resolves(Some(createChatError("UNKNOWN_ERROR",
                                                <<"An unexpected error occurred">>,
                                                str.body)))

\* a caller formats the value it caught
FormatErrorResponse ==
    /\ errorPc = "ready"
    /\ LET outcome == formatErrorResponse(thrown, includeDetails)
       IN  IF outcome.kind = "throws"
           THEN errorPc' = "threw" /\ response' = Null
           ELSE errorPc' = "returned" /\ response' = outcome.body
    /\ UNCHANGED <<thrown, includeDetails>>
    /\ UNCHANGED <<decideVars, serviceVars, spaceVars, diskVars, maskVars>>

InitErrors ==
    /\ tokenCounts = Null
    /\ messages = <<>>
    /\ config = Undefined
    /\ strategies = <<>>
    /\ pc = "errors"
    /\ callLog = <<>>
    /\ ServiceUnused
    /\ SpaceUnused
    /\ DiskUnused
    /\ MaskUnused
    /\ thrown \in ErrorValues
    /\ includeDetails \in BOOLEAN
    /\ errorPc = "ready"
    /\ response = Null

NextErrors == FormatErrorResponse

SpecErrors == InitErrors /\ [][NextErrors]_vars

\* texts built around one run of alphanumeric characters: what stands before
\* it, how long it is, what follows it
MaskPrefixes == {<<>>, Sk, <<"a">> \o Sk, <<"k", "e", "y", " ">>}

MaskRunLengths == {0, KeptPrefix, KeyRun - 1, KeyRun, KeyRun + 1, KeyRun + KeptPrefix}

MaskSuffixes == {<<>>, <<" ", "!">>, <<".">> \o Run(KeyRun + 1)}

MaskInputs ==
    {p \o Run(n) \o x : p \in MaskPrefixes, n \in MaskRunLengths, x \in MaskSuffixes}

\* a caller masks a message
MaskSensitiveInfo ==
    /\ maskPc = "ready"
    /\ maskOutput' = maskSensitiveInfo(maskInput)
    /\ maskPc' = "returned"
    /\ UNCHANGED maskInput
    /\ UNCHANGED <<decideVars, serviceVars, spaceVars, diskVars, errorVars>>

InitMask ==
    /\ tokenCounts = Null
    /\ messages = <<>>
    /\ config = Undefined
    /\ strategies = <<>>
    /\ pc = "mask"
    /\ callLog = <<>>
    /\ ServiceUnused
    /\ SpaceUnused
    /\ DiskUnused
    /\ ErrorsUnused
    /\ maskInput \in MaskInputs
    /\ maskPc = "ready"
    /\ maskOutput = <<>>

NextMask == MaskSensitiveInfo

SpecMask == InitMask /\ [][NextMask]_vars

----------------------------------------------------------------------------
(* What the claims speak of, stated on the caller's state, not through the
   function's own loop and helpers *)

Returned == pc = "returned"

UsagePresent == tokenCounts # Null

Total == tokenCounts[1].total_tokens

\* a threshold as the claims mean it: the caller's value, the stated default when omitted
Threshold(f, default) ==
    IF config = Undefined THEN default
    ELSE IF config[1][f] = Undefined THEN default ELSE config[1][f][1]

TokenLimitThresholdOf == Threshold("tokenLimitThreshold", 80000)
TokenLimitTargetOf == Threshold("tokenLimitTarget", 70000)
ToolResultThresholdOf == Threshold("toolResultThreshold", 5)
ToolCallThresholdOf == Threshold("toolCallThreshold", 10)

\* number of messages with role tool
ToolRoleCount(msgs) == Cardinality({i \in DOMAIN msgs : msgs[i].role = "tool"})

\* tool-call entries of one message: the array's elements, one for a lone object
Entries(m) ==
    CASE m.toolCalls.kind = "array" -> Len(m.toolCalls.items)
      [] m.toolCalls.kind = "object" -> 1
      [] OTHER -> 0

\* tool-call entries summed over all messages
ToolCallEntries(msgs) ==
    Cardinality(UNION {{<<i, j>> : j \in 1..Entries(msgs[i])} : i \in DOMAIN msgs})

\* max(3, floor(t / 2)), floor stated by 2k <= t <= 2k + 1
HalfFloorAtLeast3(t) ==
    LET k == CHOOSE x \in -(t * t + 1)..(t * t + 1) : 2 * x <= t /\ t <= 2 * x + 1
    IN  IF k < 3 THEN 3 ELSE k

TokenBreach == UsagePresent /\ Total # 0 /\ Total > TokenLimitThresholdOf
ResultBreach == ToolRoleCount(messages) > ToolResultThresholdOf
CallBreach == ToolCallEntries(messages) > ToolCallThresholdOf
Signal == UsagePresent /\ Total # 0

----------------------------------------------------------------------------
(* Claims *)

\* C1: with usage absent (null) or usage.total_tokens = 0 the call returns the
\* empty sequence, for every message sequence and thresholds configuration.
C1_NoSignalNoOp ==
    (Returned /\ (tokenCounts = Null \/ Total = 0)) => strategies = <<>>

\* C1 witness: a zero-usage call returned although both tool counts exceed their thresholds
C1_Witness ==
    /\ Returned /\ UsagePresent /\ Total = 0
    /\ ResultBreach /\ CallBreach
    /\ strategies = <<>>

\* C2 as stated: whenever total_tokens > tokenLimitThreshold the result is
\* exactly [TokenLimit{limitTokens: tokenLimitTarget}], for every value of the thresholds.
C2_Original ==
    (Returned /\ UsagePresent /\ Total > TokenLimitThresholdOf)
        => strategies = <<TokenLimit(TokenLimitTargetOf)>>

\* C2 amended: whenever total_tokens is non-zero and greater than
\* tokenLimitThreshold, the result is exactly [TokenLimit{limitTokens:
\* tokenLimitTarget}], whatever the tool counts and the thresholds are.
C2_TokenLimitPriority ==
    (Returned /\ TokenBreach) => strategies = <<TokenLimit(TokenLimitTargetOf)>>

\* C2 witness: a token breach decided while both tool counts also exceed their thresholds
C2_Witness ==
    /\ Returned /\ TokenBreach /\ ResultBreach /\ CallBreach
    /\ strategies = <<TokenLimit(TokenLimitTargetOf)>>

\* C3: the returned sequence has length 0 or 1; strategies are never stacked.
C3_AtMostOne == Returned => Len(strategies) <= 1

\* C3 witness: all three triggers apply at once and one directive is returned
C3_Witness ==
    /\ Returned /\ TokenBreach /\ ResultBreach /\ CallBreach
    /\ Len(strategies) = 1

\* C4: usage present, total_tokens non-zero and not above tokenLimitThreshold,
\* more tool-role messages than toolResultThreshold: the result is exactly
\* [RemoveToolResults{keepRecentCount: max(3, floor(toolResultThreshold / 2)),
\* placeholder: "Done"}], whatever the tool-call count is.
C4_ToolResultTrigger ==
    (Returned /\ Signal /\ ~TokenBreach /\ ResultBreach)
        => strategies = <<RemoveToolResult(HalfFloorAtLeast3(ToolResultThresholdOf), "Done")>>

\* C4 witness: the tool-result trigger decided while the tool-call count is over its
\* threshold too, from a tool message that itself carries tool calls
C4_Witness ==
    /\ Returned /\ Signal /\ ~TokenBreach /\ ResultBreach /\ CallBreach
    /\ \E i \in DOMAIN messages : messages[i].role = "tool" /\ Entries(messages[i]) > 0
    /\ strategies # <<>> /\ strategies[1].type = "remove_tool_result"

\* C5: usage present, total_tokens non-zero and not above tokenLimitThreshold,
\* tool-result count not above toolResultThreshold, and more tool_calls entries
\* over all messages than toolCallThreshold: the result is exactly
\* [RemoveToolCallParams{keepRecentCount: max(3, floor(toolCallThreshold / 2))}].
C5_ToolCallTrigger ==
    (Returned /\ Signal /\ ~TokenBreach /\ ~ResultBreach /\ CallBreach)
        => strategies = <<RemoveToolCallParams(HalfFloorAtLeast3(ToolCallThresholdOf))>>

\* C5 witness: the tool-call trigger under the default thresholds, 11 calls or more
C5_Witness ==
    /\ Returned /\ config = Undefined /\ Signal /\ ~TokenBreach /\ ~ResultBreach
    /\ ToolCallEntries(messages) > 10
    /\ strategies = <<RemoveToolCallParams(5)>>

\* C6: the result is empty if and only if no trigger applies: usage absent or
\* zero, or else total_tokens <= tokenLimitThreshold, toolResultCount <=
\* toolResultThreshold and toolCallCount <= toolCallThreshold.
C6_EmptyIffQuiescent ==
    Returned =>
        (strategies = <<>> <=>
            (~Signal \/ (~TokenBreach /\ ~ResultBreach /\ ~CallBreach)))

\* C6 witness: every measure exactly at its threshold and nothing returned
C6_Witness ==
    /\ Returned /\ Signal
    /\ Total = TokenLimitThresholdOf
    /\ ToolRoleCount(messages) = ToolResultThresholdOf
    /\ ToolCallEntries(messages) = ToolCallThresholdOf
    /\ strategies = <<>>

\* the keepRecentCount of a directive and the threshold it was computed from
KeepRecentOf(d) ==
    IF d.type = "remove_tool_result" THEN d.params.keep_recent_n_tool_results
    ELSE d.params.keep_recent_n_tool_calls

ThresholdOf(d) ==
    IF d.type = "remove_tool_result" THEN ToolResultThresholdOf ELSE ToolCallThresholdOf

\* C7: every RemoveToolResults or RemoveToolCallParams directive returned has
\* keepRecentCount >= 3 for every integer threshold, and for thresholds >= 6
\* keepRecentCount = floor(threshold / 2) (floor, not rounding).
C7_KeepRecentFloor ==
    Returned =>
        \A i \in DOMAIN strategies :
            strategies[i].type \in {"remove_tool_result", "remove_tool_call_params"} =>
                LET k == KeepRecentOf(strategies[i])
                    t == ThresholdOf(strategies[i])
                IN  /\ k >= 3
                    /\ t >= 6 => (2 * k <= t /\ t <= 2 * k + 1)

\* C7 witness: a directive computed from an odd threshold of 6 or more
C7_Witness ==
    /\ Returned /\ strategies # <<>>
    /\ strategies[1].type = "remove_tool_result"
    /\ ToolResultThresholdOf = 7
    /\ KeepRecentOf(strategies[1]) = 3

\* the configuration with every omitted field set to its stated default
Filled(cfg) ==
    LET field(f, default) ==
            IF cfg = Undefined THEN Some(default)
            ELSE IF cfg[1][f] = Undefined THEN Some(default) ELSE cfg[1][f]
    IN  Config(field("tokenLimitThreshold", 80000), field("tokenLimitTarget", 70000),
               field("toolResultThreshold", 5), field("toolCallThreshold", 10))

\* C8: for every subset of omitted threshold fields (the whole configuration
\* included) the result equals that of a call with each omitted field set to its
\* default (80000, 70000, 5, 10) and each supplied field kept.
C8_DefaultsPerField ==
    Returned => strategies = determineEditStrategies(tokenCounts, messages, Filled(config))

\* C8 witness: a configuration supplying only some fields, decided by a defaulted one
C8_Witness ==
    /\ Returned /\ config # Undefined
    /\ config[1].toolResultThreshold # Undefined
    /\ config[1].toolCallThreshold = Undefined
    /\ Signal /\ ~TokenBreach /\ ~ResultBreach
    /\ ToolCallEntries(messages) > 10
    /\ strategies = <<RemoveToolCallParams(5)>>

SameArguments(a, b) ==
    /\ a.tokenCounts = b.tokenCounts
    /\ a.messages = b.messages
    /\ a.config = b.config

C10_InputsUnchanged ==
    Returned =>
        LET made == callLog[Len(callLog)]
        IN  /\ tokenCounts = made.tokenCounts
            /\ messages = made.messages
            /\ config = made.config

\* C10 witness: a returned call that counted a lone tool-call object and an array
C10_Witness ==
    /\ Returned /\ Len(messages) = 2
    /\ messages[1].toolCalls.kind = "object"
    /\ messages[2].toolCalls.kind = "array"
    /\ strategies # <<>>

\* the injective maps of 1..n onto itself
IndexPermutations(n) == {p \in [1..n -> 1..n] : \A i, j \in 1..n : p[i] = p[j] => i = j}

Swapped(msgs, i, j) ==
    [k \in DOMAIN msgs |-> IF k = i THEN msgs[j] ELSE IF k = j THEN msgs[i] ELSE msgs[k]]

\* every permutation of a short array; of a longer one every exchange of two
\* neighbours (these generate all permutations), of the two ends, and the reversal
Rearrangements(msgs) ==
    IF Len(msgs) <= MaxPermuted
    THEN {[k \in DOMAIN msgs |-> msgs[p[k]]] : p \in IndexPermutations(Len(msgs))}
    ELSE {Swapped(msgs, i, i + 1) : i \in 1..(Len(msgs) - 1)}
         \cup {Swapped(msgs, 1, Len(msgs))}
         \cup {[k \in DOMAIN msgs |-> msgs[Len(msgs) + 1 - k]]}

\* C11: for fixed usage and thresholds, message sequences that are permutations
\* of each other give the same directive sequence.
C11_PermutationInvariant ==
    Returned =>
        \A m \in Rearrangements(messages) :
            determineEditStrategies(tokenCounts, m, config) = strategies

\* C11 witness: a decision that rests on the first of two different messages
C11_Witness ==
    /\ Returned /\ Len(messages) = 2 /\ messages[1] # messages[2]
    /\ messages[1].role = "tool" /\ messages[2].role # "tool"
    /\ Signal /\ ~TokenBreach /\ ResultBreach
    /\ strategies # <<>> /\ strategies[1].type = "remove_tool_result"

\* C12 as stated: every TokenLimit directive returned carries a positive
\* limitTokens, for every thresholds configuration the policy accepts.
C12_Original ==
    Returned =>
        \A i \in DOMAIN strategies :
            strategies[i].type = "token_limit" => strategies[i].params.limit_tokens > 0

\* C12 amended: every TokenLimit directive returned carries limitTokens equal to
\* the configured tokenLimitTarget (70000 when omitted), so it is a positive
\* integer exactly when tokenLimitTarget is one.
C12_LimitIsTarget ==
    Returned =>
        \A i \in DOMAIN strategies :
            strategies[i].type = "token_limit" =>
                /\ strategies[i].params.limit_tokens = TokenLimitTargetOf
                /\ (strategies[i].params.limit_tokens > 0 <=> TokenLimitTargetOf > 0)

\* C12 witness: a TokenLimit directive with a positive target under a supplied configuration
C12_Witness ==
    /\ Returned /\ config # Undefined /\ config[1].tokenLimitTarget = Some(1)
    /\ strategies = <<TokenLimit(1)>>

DirectiveTypes == {"token_limit", "remove_tool_result", "remove_tool_call_params"}

\* C13: for every well-typed input, malformed thresholds included (target >=
\* threshold, negative values), the call terminates and returns a directive
\* sequence, never an error outcome.
C13_Total ==
    /\ pc # "threw"
    /\ pc = "ready" => ENABLED Decide
    /\ Returned => \A i \in DOMAIN strategies : strategies[i].type \in DirectiveTypes

\* C13 witness: a call returned a directive under a negative trigger point with
\* a target above it
C13_Witness ==
    /\ Returned /\ config # Undefined
    /\ config[1].tokenLimitThreshold = Some(-1)
    /\ config[1].tokenLimitTarget = Some(1)
    /\ config[1].toolResultThreshold = Some(-1)
    /\ strategies # <<>>

----------------------------------------------------------------------------
(* The context service helpers, read off the record of their invocations *)

InvocationsOf(fn) == {i \in DOMAIN trace : trace[i].fn = fn}

OpsOf(inv) == {inv.sdk[k].op : k \in DOMAIN inv.sdk}

CallsOf(inv, op) == {k \in DOMAIN inv.sdk : inv.sdk[k].op = op}

LoadStep == pc = "returned" /\ pc' = "loaded"

\* C14 as the claim words it: retrieving history, with whatever directives,
\* issues getMessages and nothing else on the context service and leaves the
\* session's stored messages as they were, whether the retrieval succeeds or fails
C14_Original ==
    [][LoadStep =>
          /\ stored' = stored
          /\ OpsOf(trace'[Len(trace')]) \subseteq {"sessions.getMessages"}]_vars

\* C14: retrieving history, with whatever directives, issues no store, update
\* or delete: the only calls are the getMessages read and, after a network
\* failure, the ping of the connection test; the stored messages are the same
\* before and after, on success and on failure
C14_LoadNeverMutates ==
    [][LoadStep =>
          /\ stored' = stored
          /\ dbRow' = dbRow
          /\ OpsOf(trace'[Len(trace')]) \subseteq {"sessions.getMessages", "ping"}
          /\ Cardinality(CallsOf(trace'[Len(trace')], "sessions.getMessages")) <= 1]_vars

C14_Witness ==
    /\ pc = "loaded"
    /\ stored # <<>>
    /\ LET inv == trace[Len(trace)]
       IN  /\ inv.args[2] = Some(<<TokenLimit(1)>>)
           /\ Len(inv.sdk) = 2
           /\ inv.sdk[1].reply.kind = "throws"
           /\ inv.sdk[2].op = "ping"
           /\ inv.value = <<>>

\* C15: getAcontextTokenCounts never throws; it returns null when the client
\* is not configured, the session id is empty, the service has no counts or the
\* call throws, and turns a missing total_tokens into 0; on a null count
\* determineEditStrategies returns the empty array whatever the messages and
\* thresholds
C15_UnavailableCountNoCompaction ==
    /\ \A i \in InvocationsOf("getAcontextTokenCounts") :
          LET inv == trace[i]
              issued == inv.sdk # <<>>
              reply == inv.sdk[1].reply
          IN  /\ ~inv.threw
              /\ (~acontext \/ inv.args[1] = "") => ~issued /\ inv.value = Null
              /\ (issued /\ (reply.kind = "throws" \/ reply.body = <<>>)) => inv.value = Null
              /\ (issued /\ reply.kind = "resolves" /\ reply.body # <<>>) =>
                    /\ inv.value # Null
                    /\ reply.body[1].total_tokens = Undefined => inv.value[1].total_tokens = 0
                    /\ reply.body[1].total_tokens # Undefined =>
                          inv.value[1].total_tokens = reply.body[1].total_tokens[1]
              /\ inv.value = Null =>
                    \A m \in RepeatMessages, c \in RepeatConfigs :
                        determineEditStrategies(inv.value, m, c) = <<>>
    /\ (pc \in {"returned", "loaded"} /\ tokenCounts = Null) => strategies = <<>>

C15_Witness ==
    /\ pc = "returned"
    /\ config = Config(Some(2), Some(1), Some(1), Some(0))
    /\ strategies = <<>>
    /\ \E i \in InvocationsOf("getAcontextTokenCounts") :
          /\ trace[i].sdk # <<>>
          /\ trace[i].sdk[1].reply.kind = "throws"
          /\ trace[i].value = Null
          /\ tokenCounts = Null

\* C17: when loadMessagesFromAcontext is given a non-empty directive array its
\* one getMessages request carries exactly that array, same directives in the
\* same order, as editStrategies; given an empty array or none, the request
\* carries no editStrategies at all
C17_DirectivesPassedUnchanged ==
    \A i \in InvocationsOf("loadMessagesFromAcontext") :
        LET inv == trace[i]
            given == inv.args[2]
            requests == CallsOf(inv, "sessions.getMessages")
        IN  /\ (acontext /\ inv.args[1] # "") => Cardinality(requests) = 1
            /\ \A k \in requests :
                  LET options == inv.sdk[k].args[2]
                  IN  /\ inv.sdk[k].args[1] = inv.args[1]
                      /\ IF given # Undefined /\ given[1] # <<>>
                         THEN options.editStrategies = given
                         ELSE options.editStrategies = Undefined

C17_Witness ==
    /\ pc = "loaded"
    /\ LET inv == trace[Len(trace)]
       IN  /\ inv.args[2] = Some(<<RemoveToolCallParams(3), RemoveToolResult(3, "Done")>>)
           /\ inv.sdk # <<>>
           /\ inv.sdk[1].args[2].editStrategies[1][2] = RemoveToolResult(3, "Done")
           /\ inv.value # <<>>

\* C18: with the client configured and the chat session already holding an
\* Acontext session id, getOrCreateAcontextSession returns that id and neither
\* calls sessions.create nor updates the session store; with the client not
\* configured it returns null and also does neither
C18_ExistingSessionReturned ==
    \A i \in InvocationsOf("getOrCreateAcontextSession") :
        LET inv == trace[i]
            cs == inv.args[1]
            has == cs.acontextSessionId \notin {Undefined, Some("")}
        IN  /\ (acontext /\ has) =>
                  /\ inv.value = cs.acontextSessionId
                  /\ inv.sdk = <<>>
                  /\ dbRow = cs.acontextSessionId
            /\ ~acontext =>
                  /\ inv.value = Null
                  /\ inv.sdk = <<>>
                  /\ dbRow = cs.acontextSessionId

C18_Witness ==
    /\ acontext
    /\ \E i \in InvocationsOf("getOrCreateAcontextSession") :
          /\ trace[i].args[1].acontextSessionId = Some("s1")
          /\ trace[i].value = Some("s1")
          /\ trace[i].sdk = <<>>

\* C16: with the client configured, whatever the order and interleaving of the
\* calls of getOrCreateUserSpaceId for one user, the context service creates at
\* most one Space for the user and all calls that return an id return the same one
C16_OneSpacePerUser ==
    acontext =>
        /\ spacesCreated <= 1
        /\ \A i, j \in DOMAIN spaceReturns :
              (spaceReturns[i] # Null /\ spaceReturns[j] # Null)
                  => spaceReturns[i] = spaceReturns[j]

----------------------------------------------------------------------------
(* The Disk listing, stated on the directory tree itself *)

Range(seq) == {seq[k] : k \in DOMAIN seq}

NoRepeats(seq) == \A i, j \in DOMAIN seq : seq[i] = seq[j] => i = j

IsPrefix(a, b) == Len(a) <= Len(b) /\ SubSeq(b, 1, Len(a)) = a

\* the directories at or below dir
Subtree(dir) == {d \in disk.tree.dirs : IsPrefix(dir, d)}

\* the identity of a listed artifact: its id, else its path
ArtifactKey(item) == IF item.id # Undefined THEN item.id ELSE item.path

ArtifactsOf(dirs) ==
    UNION {{ArtifactKey(disk.tree.files[d][k]) : k \in DOMAIN disk.tree.files[d]} : d \in dirs}

ReturnedKeys == [k \in DOMAIN diskResult[1] |-> diskResult[1][k].id]

\* listAcontextArtifacts returned after listing the tree from "/"
Listed == diskPc = "done" /\ listedPaths # <<>>

\* the listing returned exactly the artifacts of dirs, each once, having
\* listed exactly the directories in listedDirs, each once
ReturnedExactly(dirs, listedDirs) ==
    /\ diskResult # Null
    /\ Range(ReturnedKeys) = ArtifactsOf(dirs)
    /\ NoRepeats(ReturnedKeys)
    /\ Range(listedPaths) = listedDirs
    /\ NoRepeats(listedPaths)

----------------------------------------------------------------------------
(* formatErrorResponse *)

\* C20: formatErrorResponse never throws and sorts every input into exactly
\* one of three outcomes, tested in this order: an Error instance gives code
\* CHAT_ERROR with the masked error.message; otherwise a non-null object with
\* a code property comes back as it is; otherwise the result has code
\* UNKNOWN_ERROR and the fixed message
C20_ThreeOutcomesNeverThrows ==
    errorPc # "ready" =>
        /\ errorPc = "returned"
        /\ IF thrown.kind = "Error"
           THEN /\ response[1].code = "CHAT_ERROR"
                /\ response[1].message = maskSensitiveInfo(thrown.message.text)
           ELSE IF thrown.kind = "object" /\ thrown.hasCode
           THEN response[1] = thrown
           ELSE /\ response[1].code = "UNKNOWN_ERROR"
                /\ response[1].message = <<"An unexpected error occurred">>

----------------------------------------------------------------------------
(* maskSensitiveInfo *)

AllAlnum(str) == \A k \in DOMAIN str : str[k] \in Alnum

\* str holds 32 or more alphanumeric characters in a row
HasKeyLikeRun(str) ==
    \E i \in 1..(Len(str) - 31) : AllAlnum(SubSeq(str, i, i + 31))

Stars == <<"*", "*", "*">>

\* C21: the output of maskSensitiveInfo holds no run of 32 or more
\* alphanumeric characters: such a run after "sk-" becomes "sk-***", any other
\* is cut to its first 8 characters and "***"; a text without such a run comes
\* back unchanged
C21_MasksEveryKeyLikeRun ==
    maskPc = "returned" =>
        /\ ~HasKeyLikeRun(maskOutput)
        /\ ~HasKeyLikeRun(maskInput) => maskOutput = maskInput
        /\ (Len(maskInput) >= 32 /\ AllAlnum(maskInput))
              => maskOutput = SubSeq(maskInput, 1, 8) \o Stars
        /\ (/\ Len(maskInput) >= 35
            /\ SubSeq(maskInput, 1, 3) = <<"s", "k", "-">>
            /\ AllAlnum(SubSeq(maskInput, 4, Len(maskInput))))
              => maskOutput = <<"s", "k", "-">> \o Stars

----------------------------------------------------------------------------
(* What a returned directive leaves to do *)

\* the number of items the directive's kind counts in the caller's messages
CountedBy(strategy) ==
    IF strategy.type = "remove_tool_result"
    THEN ToolRoleCount(messages) ELSE ToolCallEntries(messages)

\* C22 as stated: the keepRecentCount of a returned RemoveToolResults directive
\* is strictly below the number of tool-role messages, that of a returned
\* RemoveToolCallParams directive strictly below the number of tool_calls
\* entries, for every threshold value
C22_Original ==
    Returned =>
        \A i \in DOMAIN strategies :
            strategies[i].type \in {"remove_tool_result", "remove_tool_call_params"} =>
                KeepRecentOf(strategies[i]) < CountedBy(strategies[i])

\* C22 amended: a returned RemoveToolResults or RemoveToolCallParams directive
\* was triggered by a count above its threshold; its keepRecentCount is
\* strictly below that count exactly when the count exceeds 3, which is so
\* whenever the threshold is 3 or more; under a smaller threshold a count of
\* 3 or less yields a directive that keeps every item
C22_KeepBelowCount ==
    Returned =>
        \A i \in DOMAIN strategies :
            strategies[i].type \in {"remove_tool_result", "remove_tool_call_params"} =>
                LET k == KeepRecentOf(strategies[i])
                    t == ThresholdOf(strategies[i])
                    n == CountedBy(strategies[i])
                IN  /\ n > t
                    /\ k < n <=> n > 3
                    /\ t >= 3 => k < n

\* C22 witness: eight tool results over a threshold of seven, three kept
C22_Witness ==
    /\ Returned /\ strategies # <<>>
    /\ strategies[1].type = "remove_tool_result"
    /\ ToolResultThresholdOf = 7
    /\ ToolRoleCount(messages) = 8
    /\ KeepRecentOf(strategies[1]) < 8

\* C23: under thresholds with tokenLimitTarget < tokenLimitThreshold, every
\* TokenLimit directive returned has limitTokens strictly below the
\* total_tokens that triggered it
C23_LimitBelowUsage ==
    (Returned /\ TokenLimitTargetOf < TokenLimitThresholdOf) =>
        \A i \in DOMAIN strategies :
            strategies[i].type = "token_limit" =>
                /\ UsagePresent
                /\ strategies[i].params.limit_tokens < Total

\* C23 witness: usage of 3 over a trigger point of 2 with a target of 1
C23_Witness ==
    /\ Returned /\ UsagePresent /\ Total = 3
    /\ TokenLimitThresholdOf = 2 /\ TokenLimitTargetOf = 1
    /\ strategies # <<>>
    /\ strategies[1].type = "token_limit"
    /\ strategies[1].params.limit_tokens < 3

----------------------------------------------------------------------------
(* Longer histories *)

\* msgs with extra put in after its first pos messages
Inserted(msgs, pos, extra) ==
    SubSeq(msgs, 1, pos) \o extra \o SubSeq(msgs, pos + 1, Len(msgs))

\* the message arrays obtained from msgs by adding one message anywhere, or
\* two at once at either end
Extensions(msgs) ==
    {Inserted(msgs, pos, <<m>>) : pos \in 0..Len(msgs), m \in MessageValues}
    \cup {Inserted(msgs, pos, <<m, m>>) : pos \in {0, Len(msgs)}, m \in MessageValues}

\* C24: for fixed usage and thresholds, when the call returns a directive for
\* a message array it returns one for every array obtained from it by adding
\* messages: more history never makes a warranted compaction disappear
C24_MonotoneInHistory ==
    (Returned /\ strategies # <<>>) =>
        \A longer \in Extensions(messages) :
            determineEditStrategies(tokenCounts, longer, config) # <<>>

\* C24 witness: a call decided by the tool-call count alone, whose directive
\* changes kind when a tool message is added
C24_Witness ==
    /\ Returned /\ strategies # <<>>
    /\ strategies[1].type = "remove_tool_call_params"
    /\ \E longer \in Extensions(messages) :
          /\ determineEditStrategies(tokenCounts, longer, config) # <<>>
          /\ determineEditStrategies(tokenCounts, longer, config)[1].type
                = "remove_tool_result"

----------------------------------------------------------------------------
(* formatErrorResponse without details *)

\* the message and the details of the ChatError returned: of the input itself
\* when it came back as it is
ResponseMessage ==
    IF thrown.kind = "object" /\ thrown.hasCode
    THEN response[1].message.text ELSE response[1].message

\* value but for its stack and the details attached to it
SameError(value, other) ==
    [value EXCEPT !.stack = Undefined, !.details = Undefined]
        = [other EXCEPT !.stack = Undefined, !.details = Undefined]

\* C25: with includeDetails false the ChatError returned carries no details,
\* whatever the input, its message holds no unmasked key-like string, and
\* what is returned is the same for inputs that differ only in their stack
\* or in the details attached to them
C25_NoDetailsNoKeys ==
    (errorPc = "returned" /\ ~includeDetails) =>
        /\ response[1].details = Undefined
        /\ ~HasKeyLikeRun(ResponseMessage)
        /\ \A other \in ErrorValues :
              SameError(thrown, other) =>
                  formatErrorResponse(other, FALSE) = Resolves(response)

====
